---- MODULE Spec2Model ----
(***************************************************************************)
(* User-account and session service (routes/index.js, models/session.js).  *)
(* Every request handler is an async function: the code between two awaits *)
(* runs atomically on the event loop, and every awaited store operation is  *)
(* one atomic step of the document store.  An action of this model is one   *)
(* store operation together with the handler code that runs when it        *)
(* returns, up to the next await or the response.  Requests in different    *)
(* slots interleave at that granularity.                                    *)
(***************************************************************************)
EXTENDS Integers, Sequences, FiniteSets

\* users, sessions: the two collections, in insertion order (a user's _id is
\*   its position; users are never deleted).
\* now: the clock, Date.now().
\* req: the request each slot is serving and where its handler waits.
\* res: the response sent by the latest step.
\* live, revoked: history of the session keys.  live holds the keys a login
\*   returned with 200 and no logout has presented since; revoked holds the
\*   keys a logout presented while live and no login has created again since.
VARIABLES users, sessions, now, req, res, live, revoked

vars == <<users, sessions, now, req, res, live, revoked>>

(* ------------------------------ bounds --------------------------------- *)

\* Most user documents the store holds.
MaxUsers == 2
\* Most session documents the store holds at a time.
MaxSessions == 2
\* Request slots: requests being served at the same time.
Requests == {"r1", "r2"}

Names == {"Alice", "Bob"}
Emails == {"a@x.com", "b@x.com"}
Passwords == {"pw1", "pw2"}

\* A missing or empty input (undefined or ''): falsy in the handlers' tests.
Absent == ""

(* --------------------------- pure functions ---------------------------- *)

Digit(d) ==
  CASE d = 0 -> "0" [] d = 1 -> "1" [] d = 2 -> "2" [] d = 3 -> "3"
    [] d = 4 -> "4" [] d = 5 -> "5" [] d = 6 -> "6" [] d = 7 -> "7"
    [] d = 8 -> "8" [] d = 9 -> "9"

RECURSIVE ToString(_)
\* Number.prototype.toString() of a non-negative integer: its decimal digits.
ToString(n) == IF n < 10 THEN Digit(n) ELSE ToString(n \div 10) \o Digit(n % 10)

\* crypto sha256 hex digest, modelled as an injective tagging of its input:
\* equal inputs give equal digests, distinct inputs distinct digests, and a
\* digest never equals its input.
sha256Hash(data) == "sha256(" \o data \o ")"

\* The session key is the digest of the clock reading t = Date.now().
gensessionKey(t) == sha256Hash(ToString(t))

\* Session.expiredAt default: Date.now() + 7*24*60*60*1000.
SevenDays == 7 * 24 * 60 * 60 * 1000
DefaultExpiredAt(t) == t + SevenDays

\* Date.prototype.toLocaleString(): a rendering of the instant.
ToLocaleString(t) == "date(" \o ToString(t) \o ")"

(* ------------------------------ the clock ------------------------------ *)

\* The clock readings (Date.now(), in milliseconds) the model distinguishes:
\* a first instant, and a second one more than seven days later.
Instants == {0, SevenDays + 1}

(* ------------------------------ documents ------------------------------ *)

NoUser == [name |-> Absent, email |-> Absent, password |-> Absent, updateAt |-> 0]

NoBody == [name |-> Absent, email |-> Absent, password |-> Absent]

\* The keys a JSON body carries: the bodies drawn carry a field with a
\* non-empty value or not at all, so an Absent field is not among the keys.
BodyKeys(body) == {k \in {"name", "email", "password"} : body[k] # Absent}

\* Object.keys(req.body) < 1 : the array is converted to a primitive, its
\* elements joined by ','; the empty array gives '' and Number('') is 0, so
\* the test is true; a list of the keys name/email/password gives a string
\* that is not a number (NaN), and NaN < 1 is false.
\* Mutant: the comparison is NaN < 1 for every body, never true.
KeysLessThanOneNever(keys) == FALSE

KeysLessThanOne(keys) == keys = {}

\* A request slot: pc is the awaited store operation ("idle": no request),
\* sessionKey/body the request's inputs, userId what the interceptor put in
\* req.params, user the handler's in-memory document, mod its modified paths,
\* at the clock reading the handler took.
Idle == [pc |-> "idle", sessionKey |-> Absent, body |-> NoBody,
         userId |-> 0, user |-> NoUser, mod |-> {}, at |-> 0]

NoOut == [session_key |-> Absent, name |-> Absent, email |-> Absent,
          update_at |-> Absent]

\* What the latest step sent or decided: op is the route (or the interceptor)
\* that acted, sessionKey and body the request's inputs, status the HTTP
\* status sent (0: none) and out the JSON sent with it.
Response(op, sessionKey, body, status, out) ==
  [op |-> op, sessionKey |-> sessionKey, body |-> body, status |-> status,
   out |-> out]

\* No response sent by the latest step.
Pending == Response("none", Absent, NoBody, 0, NoOut)

\* A store operation that rejects (duplicate key) makes the async handler
\* throw: nothing catches it and no sendStatus answers the request.  The
\* model records the outcome as status 500.
Fault == 500

(* ---------------------------- store queries ---------------------------- *)

UserIds == 1..Len(users)

\* Mutant: the lookup never finds a document.
FindUserByEmailNone(us, email) == 0

\* UserDao.findOne({email}): the id of the first matching document, or 0.
FindUserByEmail(us, email) ==
  IF \E i \in 1..Len(us) : us[i].email = email
  THEN CHOOSE i \in 1..Len(us) :
         /\ us[i].email = email
         /\ \A j \in 1..(i - 1) : us[j].email # email
  ELSE 0

\* Mutant: the password is left out of the query.
FindUserByCredentialsEmailOnly(us, email, digest) == FindUserByEmail(us, email)

\* UserDao.findOne({email, password}): both fields must match.
FindUserByCredentials(us, email, digest) ==
  IF \E i \in 1..Len(us) : us[i].email = email /\ us[i].password = digest
  THEN CHOOSE i \in 1..Len(us) :
         /\ us[i].email = email /\ us[i].password = digest
         /\ \A j \in 1..(i - 1) : ~(us[j].email = email /\ us[j].password = digest)
  ELSE 0

\* Mutant: the query's filter is lost, any session document matches.
FindSessionAny(ss, key) == IF Len(ss) = 0 THEN 0 ELSE 1

\* Mutant: the query also asks for expiredAt not to lie in the past.
FindSessionUnexpired(ss, key) ==
  IF \E i \in 1..Len(ss) : ss[i].sessionKey = key /\ ss[i].expiredAt >= now
  THEN CHOOSE i \in 1..Len(ss) : ss[i].sessionKey = key /\ ss[i].expiredAt >= now
  ELSE 0

\* SessionDao.findOne({sessionKey}): index of the first match, or 0.
FindSession(ss, key) ==
  IF \E i \in 1..Len(ss) : ss[i].sessionKey = key
  THEN CHOOSE i \in 1..Len(ss) :
         /\ ss[i].sessionKey = key
         /\ \A j \in 1..(i - 1) : ss[j].sessionKey # key
  ELSE 0

\* The sequence s without its i-th element.
RemoveAt(s, i) == [j \in 1..(Len(s) - 1) |-> IF j < i THEN s[j] ELSE s[j + 1]]

\* Mutant: the removal is never executed.
FindOneAndRemoveNothing(ss, key) == ss

\* Mutant: the removal ignores the key and takes the oldest session.
FindOneAndRemoveOldest(ss, key) == IF Len(ss) = 0 THEN ss ELSE Tail(ss)

\* Mutant: when the key matches, every session is removed.
FindOneAndRemoveAll(ss, key) == IF FindSession(ss, key) = 0 THEN ss ELSE <<>>

\* SessionDao.findOneAndRemove({sessionKey}): removes the first match, if any.
FindOneAndRemove(ss, key) ==
  IF FindSession(ss, key) = 0 THEN ss ELSE RemoveAt(ss, FindSession(ss, key))

\* Mutant: the collection has no unique index on sessionKey.
SessionKeyFreeAlways(ss, key) == TRUE

\* Unique index on Session.sessionKey: may a document with this key be inserted?
SessionKeyFree(ss, key) == \A i \in 1..Len(ss) : ss[i].sessionKey # key

\* Mutant: the collection has no unique index on email.
UserEmailFreeAlways(us, id, email) == TRUE

\* Unique index on User.email: may document id (0: a new one) hold this email?
UserEmailFree(us, id, email) ==
  \A i \in 1..Len(us) : i # id => us[i].email # email


(* ------------------------------- Init ---------------------------------- *)

Init ==
  /\ users = <<>>
  /\ sessions = <<>>
  /\ now = 0
  /\ req = [r \in Requests |-> Idle]
  /\ res = Pending
  /\ live = {}
  /\ revoked = {}

\* Request r ends: the response is sent and the slot is free again.  res is
\* the response the latest step sent (Pending when it sent none).
Respond(r, op, sessionKey, body, status, out) ==
  /\ req' = [req EXCEPT ![r] = Idle]
  /\ res' = Response(op, sessionKey, body, status, out)

\* Request r goes on to its next awaited store operation.
Await(r, next) ==
  /\ req' = [req EXCEPT ![r] = next]
  /\ res' = Pending

(* --------------------------- POST /register ---------------------------- *)

\* The document UserDao.create builds: the password is stored as its digest,
\* updateAt takes the schema default (the creation time).
NewUser(name, email, password, t) ==
  [name |-> name, email |-> email, password |-> sha256Hash(password),
   updateAt |-> t]

\* Field validation and the email lookup (await UserDao.findOne); when the
\* email is free the new document is built and its insertion awaited.
RegisterFind(r, body) ==
  /\ req[r].pc = "idle"
  /\ UNCHANGED <<users, sessions, now, live, revoked>>
  /\ IF body.name = Absent \/ body.email = Absent \/ body.password = Absent
     THEN Respond(r, "register", Absent, body, 400, NoOut)
     ELSE IF FindUserByEmail(users, body.email) # 0
     THEN Respond(r, "register", Absent, body, 409, NoOut)
     ELSE Await(r, [Idle EXCEPT !.pc = "register_create", !.body = body,
                      !.user = NewUser(body.name, body.email, body.password, now)])

\* await UserDao.create, then sendStatus(200).
RegisterCreate(r) ==
  /\ req[r].pc = "register_create"
  /\ UNCHANGED <<sessions, now, live, revoked>>
  /\ IF UserEmailFree(users, 0, req[r].user.email)
     THEN /\ Len(users) < MaxUsers
          /\ users' = Append(users, req[r].user)
          /\ Respond(r, "register", Absent, req[r].body, 200, NoOut)
     ELSE /\ users' = users
          /\ Respond(r, "register", Absent, req[r].body, Fault, NoOut)

(* ----------------------------- POST /login ----------------------------- *)

\* Mutant: the session is given an id of its own instead of the user's.
NewSessionOwnId(userId, t) ==
  [sessionKey |-> gensessionKey(t), userId |-> Len(users) + 1,
   expiredAt |-> DefaultExpiredAt(t)]

\* The document SessionDao.create builds at clock reading t.
NewSession(userId, t) ==
  [sessionKey |-> gensessionKey(t), userId |-> userId,
   expiredAt |-> DefaultExpiredAt(t)]

\* Field validation and the credential lookup (await UserDao.findOne); when a
\* user matches, the session document is built (key and expiry read the clock)
\* and its insertion is awaited.
LoginFind(r, body) ==
  /\ req[r].pc = "idle"
  /\ UNCHANGED <<users, sessions, now, live, revoked>>
  /\ IF body.email = Absent \/ body.password = Absent
     THEN Respond(r, "login", Absent, body, 400, NoOut)
     ELSE LET id == FindUserByCredentials(users, body.email, sha256Hash(body.password)) IN
          IF id = 0
          THEN Respond(r, "login", Absent, body, 404, NoOut)
          ELSE Await(r, [Idle EXCEPT !.pc = "login_create", !.body = body,
                                     !.userId = id, !.at = now])

\* await SessionDao.create, then status(200).send({session_key}).
LoginCreate(r) ==
  /\ req[r].pc = "login_create"
  /\ UNCHANGED <<users, now>>
  /\ LET doc == NewSession(req[r].userId, req[r].at) IN
     IF SessionKeyFree(sessions, doc.sessionKey)
     THEN /\ Len(sessions) < MaxSessions
          /\ sessions' = Append(sessions, doc)
          /\ Respond(r, "login", Absent, req[r].body, 200,
                     [NoOut EXCEPT !.session_key = doc.sessionKey])
          /\ live' = live \cup {doc.sessionKey}
          /\ revoked' = revoked \ {doc.sessionKey}
     ELSE /\ sessions' = sessions
          /\ Respond(r, "login", Absent, req[r].body, Fault, NoOut)
          /\ UNCHANGED <<live, revoked>>

(* ----------------------------- POST /logout ---------------------------- *)

\* The sessions a logout presenting sessionKey leaves: without the header
\* no store operation is made.
LogoutSessions(ss, sessionKey) ==
  IF sessionKey # Absent THEN FindOneAndRemove(ss, sessionKey) ELSE ss

\* Header check, await SessionDao.findOneAndRemove, sendStatus(200).
Logout(r, sessionKey) ==
  /\ req[r].pc = "idle"
  /\ UNCHANGED <<users, now>>
  /\ sessions' = LogoutSessions(sessions, sessionKey)
  /\ Respond(r, "logout", sessionKey, NoBody, 200, NoOut)
  /\ live' = live \ {sessionKey}
  /\ revoked' = IF sessionKey \in live THEN revoked \cup {sessionKey} ELSE revoked

(* ------------------------- checkLoginInterceptor ----------------------- *)

\* Mutant: the interceptor removes a session it finds expired and answers 401.
checkLoginInterceptorPurge(r, route, sessionKey) ==
  /\ req[r].pc = "idle"
  /\ UNCHANGED <<users, now, live, revoked>>
  /\ LET i == FindSession(sessions, sessionKey) IN
     IF sessionKey = Absent \/ i = 0
     THEN /\ sessions' = sessions
          /\ Respond(r, "checkLogin", sessionKey, NoBody, 401, NoOut)
     ELSE IF sessions[i].expiredAt < now
     THEN /\ sessions' = RemoveAt(sessions, i)
          /\ Respond(r, "checkLogin", sessionKey, NoBody, 401, NoOut)
     ELSE /\ sessions' = sessions
          /\ req' = [req EXCEPT ![r] =
                    [Idle EXCEPT !.pc = route, !.sessionKey = sessionKey,
                                 !.userId = sessions[i].userId]]
          /\ res' = Response("checkLogin", sessionKey, NoBody, 0, NoOut)

\* The interceptor in front of GET /user (route "get_find") and PATCH /user
\* (route "patch_find"): header check and await SessionDao.findOne; on a match
\* the session's userId goes into req.params and the handler's first store
\* operation (UserDao.findById) is awaited.  The interceptor does not read
\* the body: the model draws it where the handler first reads it.
checkLoginInterceptor(r, route, sessionKey) ==
  /\ req[r].pc = "idle"
  /\ UNCHANGED <<users, sessions, now, live, revoked>>
  /\ IF sessionKey = Absent
     THEN Respond(r, "checkLogin", sessionKey, NoBody, 401, NoOut)
     ELSE LET i == FindSession(sessions, sessionKey) IN
          IF i = 0
          THEN Respond(r, "checkLogin", sessionKey, NoBody, 401, NoOut)
          ELSE /\ req' = [req EXCEPT ![r] =
                         [Idle EXCEPT !.pc = route, !.sessionKey = sessionKey,
                                      !.userId = sessions[i].userId]]
               /\ res' = Response("checkLogin", sessionKey, NoBody, 0, NoOut)

(* ------------------------------ GET /user ------------------------------ *)

\* await UserDao.findById, then the profile is sent.
GetUser(r) ==
  /\ req[r].pc = "get_find"
  /\ UNCHANGED <<users, sessions, now, live, revoked>>
  /\ IF req[r].userId \notin UserIds
     THEN Respond(r, "get", req[r].sessionKey, NoBody, 401, NoOut)
     ELSE LET user == users[req[r].userId] IN
          Respond(r, "get", req[r].sessionKey, NoBody, 200,
                  [NoOut EXCEPT !.name = user.name, !.email = user.email,
                                !.update_at = ToLocaleString(user.updateAt)])

(* ----------------------------- PATCH /user ----------------------------- *)

\* An assignment to a path of a loaded document: the path counts as modified
\* (and is written by save) when the value differs from the one it held.
Assign(st, path, value) ==
  IF st.user[path] = value
  THEN st
  ELSE [user |-> [st.user EXCEPT ![path] = value], mod |-> st.mod \cup {path}]

\* Lines 324-331: name and password are applied when the body supplies them.
ApplyNameAndPassword(st, body) ==
  LET st1 == IF body.name # Absent THEN Assign(st, "name", body.name) ELSE st
  IN  IF body.password # Absent
      THEN Assign(st1, "password", sha256Hash(body.password))
      ELSE st1

\* Mutant: updateAt is not stamped before the save.
ApplyAndSaveNoStamp(r, body, st, emailSet) ==
  LET isUpdate == emailSet \/ body.name # Absent \/ body.password # Absent
      st2 == ApplyNameAndPassword(st, body)
  IN  IF isUpdate
      THEN Await(r, [req[r] EXCEPT !.pc = "patch_save", !.body = body,
                                   !.user = st2.user, !.mod = st2.mod,
                                   !.at = now])
      ELSE Respond(r, "patch", req[r].sessionKey, body, 200, NoOut)

\* Mutant: the document is stamped and saved whether or not a field was applied.
ApplyAndSaveAlways(r, body, st, emailSet) ==
  LET st2 == Assign(ApplyNameAndPassword(st, body), "updateAt", now)
  IN  Await(r, [req[r] EXCEPT !.pc = "patch_save", !.body = body,
                              !.user = st2.user, !.mod = st2.mod,
                              !.at = now])

\* Lines 324-336 for request r holding document state st, with isUpdate as
\* the email branch left it: the fields are applied; if any was, updateAt is
\* stamped with the clock and the save awaited; else 200 is sent at once.
ApplyAndSave(r, body, st, emailSet) ==
  LET isUpdate == emailSet \/ body.name # Absent \/ body.password # Absent
      st2 == Assign(ApplyNameAndPassword(st, body), "updateAt", now)
  IN  IF isUpdate
      THEN Await(r, [req[r] EXCEPT !.pc = "patch_save", !.body = body,
                                   !.user = st2.user, !.mod = st2.mod,
                                   !.at = now])
      ELSE Respond(r, "patch", req[r].sessionKey, body, 200, NoOut)

\* await UserDao.findById, the empty-body test, and the email comparison,
\* for a request whose JSON body is body.
PatchFind(r, body) ==
  /\ req[r].pc = "patch_find"
  /\ UNCHANGED <<users, sessions, now, live, revoked>>
  /\ IF req[r].userId \notin UserIds
     THEN Respond(r, "patch", req[r].sessionKey, body, 401, NoOut)
     ELSE IF KeysLessThanOne(BodyKeys(body))
     THEN Respond(r, "patch", req[r].sessionKey, body, 400, NoOut)
     ELSE LET user == users[req[r].userId] IN
          IF body.email # Absent /\ user.email # body.email
          THEN Await(r, [req[r] EXCEPT !.pc = "patch_email", !.body = body,
                                       !.user = user])
          ELSE ApplyAndSave(r, body, [user |-> user, mod |-> {}], FALSE)

\* Mutant: the result of the email lookup is not tested.
PatchEmailNoCheck(r) ==
  /\ req[r].pc = "patch_email"
  /\ UNCHANGED <<users, sessions, now, live, revoked>>
  /\ ApplyAndSave(r, req[r].body,
                  Assign([user |-> req[r].user, mod |-> {}],
                         "email", req[r].body.email), TRUE)

\* await UserDao.findOne({email}) for the new email: 409 when it is in use.
PatchEmail(r) ==
  /\ req[r].pc = "patch_email"
  /\ UNCHANGED <<users, sessions, now, live, revoked>>
  /\ IF FindUserByEmail(users, req[r].body.email) # 0
     THEN Respond(r, "patch", req[r].sessionKey, req[r].body, 409, NoOut)
     ELSE ApplyAndSave(r, req[r].body,
                       Assign([user |-> req[r].user, mod |-> {}],
                              "email", req[r].body.email), TRUE)

\* The document user.save() leaves in the store: the modified paths are set,
\* the others keep what the store holds.
Saved(stored, user, mod) ==
  [f \in DOMAIN stored |-> IF f \in mod THEN user[f] ELSE stored[f]]

\* Mutant: the handler looks the session up again before it saves.
PatchSaveRecheck(r) ==
  /\ req[r].pc = "patch_save"
  /\ UNCHANGED <<sessions, now, live, revoked>>
  /\ LET id == req[r].userId IN
     IF FindSession(sessions, req[r].sessionKey) = 0
     THEN /\ users' = users
          /\ Respond(r, "patch", req[r].sessionKey, req[r].body, 401, NoOut)
     ELSE IF "email" \in req[r].mod /\ ~UserEmailFree(users, id, req[r].user.email)
     THEN /\ users' = users
          /\ Respond(r, "patch", req[r].sessionKey, req[r].body, Fault, NoOut)
     ELSE /\ users' = [users EXCEPT ![id] = Saved(@, req[r].user, req[r].mod)]
          /\ Respond(r, "patch", req[r].sessionKey, req[r].body, 200, NoOut)

\* await user.save(), then sendStatus(200).
PatchSave(r) ==
  /\ req[r].pc = "patch_save"
  /\ UNCHANGED <<sessions, now, live, revoked>>
  /\ LET id == req[r].userId IN
     IF "email" \in req[r].mod /\ ~UserEmailFree(users, id, req[r].user.email)
     THEN /\ users' = users
          /\ Respond(r, "patch", req[r].sessionKey, req[r].body, Fault, NoOut)
     ELSE /\ users' = [users EXCEPT ![id] = Saved(@, req[r].user, req[r].mod)]
          /\ Respond(r, "patch", req[r].sessionKey, req[r].body, 200, NoOut)

(* ------------------------------ the clock ------------------------------ *)

\* Time passes: the clock shows a later instant.
Tick ==
  /\ \E t \in Instants : t > now /\ now' = t
  /\ res' = Pending
  /\ UNCHANGED <<users, sessions, req, live, revoked>>

(* ------------------------------- inputs -------------------------------- *)

\* JSON bodies with each field absent or drawn from the given values.
Bodies(N, E, P) ==
  [name : N \cup {Absent}, email : E \cup {Absent}, password : P \cup {Absent}]

\* Session-Key headers a client may present: none, one no login issued, or
\* the digest of any clock reading.
Headers == {Absent, "bogus"} \cup {gensessionKey(t) : t \in Instants}

\* The steps of the requests served in the slots R, their names and
\* passwords drawn from N and P.
NextOf(R, N, P) ==
  \/ \E r \in R, b \in Bodies(N, Emails, P) : RegisterFind(r, b)
  \/ \E r \in R : RegisterCreate(r)
  \/ \E r \in R, b \in Bodies({}, Emails, P) : LoginFind(r, b)
  \/ \E r \in R : LoginCreate(r)
  \/ \E r \in R, k \in Headers : Logout(r, k)
  \/ \E r \in R, k \in Headers : checkLoginInterceptor(r, "get_find", k)
  \/ \E r \in R, k \in Headers : checkLoginInterceptor(r, "patch_find", k)
  \/ \E r \in R : GetUser(r)
  \/ \E r \in R, b \in Bodies(N, Emails, P) : PatchFind(r, b)
  \/ \E r \in R : PatchEmail(r)
  \/ \E r \in R : PatchSave(r)

\* Requests served one at a time, while time passes.
Next == NextOf({"r1"}, Names, Passwords) \/ Tick

Spec == Init /\ [][Next]_vars

\* Requests served concurrently within one clock instant, interleaved at
\* their store operations.
NextConcurrent == NextOf(Requests, {"Alice"}, {"pw1"})

SpecConcurrent == Init /\ [][NextConcurrent]_vars

(* ======================================================================= *)
(*                               Properties                                *)
(* ======================================================================= *)

Routes == {"get_find", "patch_find"}

\* Some session document carries this key.
HasSession(ss, key) == \E i \in 1..Len(ss) : ss[i].sessionKey = key

\* Some user document carries this email.
HasEmail(us, email) == \E i \in 1..Len(us) : us[i].email = email

\* Request r takes a step from store operation pc.
Steps(r, pc) == req[r].pc = pc /\ req'[r] # req[r]

\* The body of the request r that has just taken a step.
StepBody(r) == IF req'[r].pc = "idle" THEN res'.body ELSE req'[r].body

C2_LiveTokenAccepted ==
  /\ (res.op = "checkLogin" /\ res.sessionKey \in live) => res.status # 401
  /\ \A k \in live : HasSession(sessions, k)

\* C2 witness: a request presenting a live token has just passed the
\* interceptor, after another token was issued and logged out.
C2_Witness ==
  /\ res.op = "checkLogin"
  /\ res.sessionKey \in live
  /\ res.status = 0
  /\ revoked # {}
  /\ Len(users) = 2

\* C7: logout answers 200 whatever the header (absent, unknown, or a session's
\* key), and it is idempotent on the store: a second logout with the same
\* header, applied to the sessions the first one left, leaves them as they are.
C7_LogoutIdempotent ==
  res.op = "logout"
    => /\ res.status = 200
       /\ LogoutSessions(sessions, res.sessionKey) = sessions

\* C7 witness: a logout has just removed the session of the token it
\* presented, and another session is still stored.
C7_Witness ==
  /\ res.op = "logout"
  /\ res.status = 200
  /\ res.sessionKey \in revoked
  /\ Len(sessions) = 1

C3_UniqueEmails ==
  \A i, j \in 1..Len(users) : i # j => users[i].email # users[j].email

\* C3 witness: an UpdateProfile lost the race for an email to a Register:
\* its save was rejected while two users are stored.
C3_Witness ==
  /\ res.op = "patch"
  /\ res.status = Fault
  /\ Len(users) = 2

\* A body with name, email and password all supplied.
Complete(body) ==
  body.name # Absent /\ body.email # Absent /\ body.password # Absent

\* C4: a Register (with all three fields) whose email a stored user holds is
\* answered 409, a Register with a stored user's email never changes the
\* user store or goes on to create, and a Register of an unused
\* email with all three fields goes on to create, which answers 200 and
\* appends exactly one user, carrying that email.
C4_RegisterConflict ==
  [][\A r \in Requests :
       /\ (Steps(r, "idle") /\ HasEmail(users, StepBody(r).email)
             /\ (res'.op = "register" \/ req'[r].pc = "register_create"))
            => /\ users' = users
               /\ req'[r].pc = "idle"
               /\ Complete(res'.body) => res'.status = 409
       /\ (Steps(r, "idle") /\ res'.op = "register" /\ Complete(res'.body)
             /\ ~HasEmail(users, res'.body.email))
            => FALSE
       /\ (Steps(r, "register_create") /\ ~HasEmail(users, req[r].body.email))
            => /\ res'.op = "register" /\ res'.status = 200
               /\ Len(users') = Len(users) + 1
               /\ SubSeq(users', 1, Len(users)) = users
               /\ users'[Len(users')].email = req[r].body.email]_vars

\* C4 witness: a complete Register of a stored user's email has just been
\* answered 409.
C4_Witness ==
  /\ res.op = "register"
  /\ res.status = 409
  /\ Complete(res.body)
  /\ HasEmail(users, res.body.email)

\* Some stored user has this email and the digest of this password.
Matches(us, body) ==
  \E i \in 1..Len(us) :
    us[i].email = body.email /\ us[i].password = sha256Hash(body.password)

\* C5 (as claimed): every login whose email and password match a stored user
\* goes on to create a session, and the creation answers 200 with a token
\* that keyed no session before and now keys exactly one added session, owned
\* by the matched user.
C5_LoginCreatesFreshSession ==
  [][\A r \in Requests :
       /\ (Steps(r, "idle") /\ res'.op = "login" /\ Matches(users, res'.body))
            => FALSE
       /\ Steps(r, "login_create")
            => /\ res'.op = "login" /\ res'.status = 200
               /\ ~HasSession(sessions, res'.out.session_key)
               /\ Len(sessions') = Len(sessions) + 1
               /\ SubSeq(sessions', 1, Len(sessions)) = sessions
               /\ sessions'[Len(sessions')].sessionKey = res'.out.session_key
               /\ sessions'[Len(sessions')].userId = req[r].userId
               /\ users[req[r].userId].email = req[r].body.email]_vars

\* C6: a login (email and password supplied) with a stored email and a wrong
\* password, and one with an email no user has, get the same answer, 404, and
\* change neither store; no session creation is awaited.
C6_LoginNoMatch ==
  [][\A r \in Requests :
       (Steps(r, "idle") /\ (res'.op = "login" \/ req'[r].pc = "login_create")
          /\ StepBody(r).email # Absent /\ StepBody(r).password # Absent
          /\ ~Matches(users, StepBody(r)))
         => /\ res' = Response("login", Absent, StepBody(r), 404, NoOut)
            /\ req'[r].pc = "idle"
            /\ users' = users /\ sessions' = sessions]_vars

\* C6 witness: a login with a stored user's email and a wrong password has
\* just been answered 404.
C6_Witness ==
  /\ res.op = "login"
  /\ res.status = 404
  /\ HasEmail(users, res.body.email)
  /\ res.body.password # Absent

\* A user other than id holds this email.
HeldByOther(us, id, email) ==
  \E j \in 1..Len(us) : j # id /\ us[j].email = email

\* C9: an UpdateProfile whose body sets email to a value that differs from
\* the requesting user's stored email and that another user holds goes to the
\* email lookup without touching the store, and the lookup answers 409 and
\* leaves the whole user store (so the requester's email, name, password
\* digest and updateAt) unchanged, whatever name and password the body has.
C9_EmailConflict ==
  [][\A r \in Requests :
       /\ (Steps(r, "patch_find") /\ req[r].userId \in UserIds
             /\ StepBody(r).email # Absent
             /\ users[req[r].userId].email # StepBody(r).email
             /\ HeldByOther(users, req[r].userId, StepBody(r).email))
            => /\ users' = users
               /\ req'[r].pc = "patch_email"
               /\ req'[r].userId = req[r].userId
       /\ (Steps(r, "patch_email")
             /\ users[req[r].userId].email # req[r].body.email
             /\ HeldByOther(users, req[r].userId, req[r].body.email))
            => /\ res' = Response("patch", req[r].sessionKey, req[r].body,
                                  409, NoOut)
               /\ req'[r].pc = "idle"
               /\ users' = users]_vars

\* C9 witness: an UpdateProfile supplying a name and a password together
\* with another user's email has just been answered 409.
C9_Witness ==
  /\ res.op = "patch"
  /\ res.status = 409
  /\ res.body.name # Absent
  /\ res.body.password # Absent
  /\ HasEmail(users, res.body.email)

\* A body that supplies a name and nothing else.
NameOnly(body) ==
  body.name # Absent /\ body.email = Absent /\ body.password = Absent

\* C10: an authenticated UpdateProfile whose body supplies only a name stamps
\* the clock reading, leaves the store untouched until its save, and the save
\* answers 200, sets the user's stored name to the supplied one and updateAt
\* to the stamp, and changes neither the user's email or password digest nor
\* any other user's document.
C10_NameOnlyUpdate ==
  [][\A r \in Requests :
       /\ (Steps(r, "patch_find") /\ req[r].userId \in UserIds
             /\ NameOnly(StepBody(r)))
            => /\ users' = users
               /\ req'[r].pc = "patch_save"
               /\ req'[r].userId = req[r].userId
               /\ req'[r].at = now
       /\ (Steps(r, "patch_save") /\ NameOnly(req[r].body))
            => /\ res'.op = "patch" /\ res'.status = 200
               /\ Len(users') = Len(users)
               /\ \A j \in 1..Len(users) :
                    users'[j] = IF j = req[r].userId
                                THEN [users[j] EXCEPT !.name = req[r].body.name,
                                                      !.updateAt = req[r].at]
                                ELSE users[j]]_vars

\* C10 witness: a name-only UpdateProfile has just been answered 200; the
\* user carries the supplied name and an updateAt later than its creation,
\* next to a second user.
C10_Witness ==
  /\ res.op = "patch"
  /\ res.status = 200
  /\ NameOnly(res.body)
  /\ Len(users) = 2
  /\ \E i \in 1..Len(users) :
       /\ users[i].name = res.body.name
       /\ users[i].updateAt = now
       /\ now > 0

\* C11: no two session documents carry the same sessionKey, whatever logins
\* and logouts are served, also when two logins read the same clock instant
\* and so build the same key: the second insertion is rejected.
C11_UniqueSessionKeys ==
  \A i, j \in 1..Len(sessions) :
    i # j => sessions[i].sessionKey # sessions[j].sessionKey

\* C11 witness: a login that read the clock instant of a stored session's key
\* has just had its insertion rejected, next to a second session.
C11_Witness ==
  /\ res.op = "login"
  /\ res.status = Fault
  /\ Len(sessions) = 2
  /\ HasSession(sessions, gensessionKey(now))

SessionKeys(ss) == {ss[i].sessionKey : i \in 1..Len(ss)}

\* C13: the interceptor answers 401 exactly when no stored session carries
\* the presented key, whatever the clock shows and whatever the session's
\* expiredAt; and a session leaves the store only in a logout that presents
\* its key, never because time passes.
C13_ExpiryIgnored ==
  [][/\ res'.op = "checkLogin"
          => (res'.status = 401 <=> ~HasSession(sessions, res'.sessionKey))
     /\ \A k \in SessionKeys(sessions) \ SessionKeys(sessions') :
          res'.op = "logout" /\ res'.sessionKey = k
     /\ now' # now => sessions' = sessions]_vars

\* C13 witness: a request presenting the key of a session whose expiredAt
\* lies in the past has just passed the interceptor.
C13_Witness ==
  /\ res.op = "checkLogin"
  /\ res.status = 0
  /\ \E i \in 1..Len(sessions) :
       /\ sessions[i].sessionKey = res.sessionKey
       /\ sessions[i].expiredAt < now
  /\ \E r \in Requests : req[r].pc \in Routes /\ req[r].sessionKey = res.sessionKey

\* s is t with elements appended.
IsPrefix(s, t) == Len(s) <= Len(t) /\ SubSeq(t, 1, Len(s)) = s

\* C14: a login leaves every stored session as it is (it only appends), and
\* a logout removes at most one session and none whose key differs from the
\* one it presents: after either, every other token a login issued and no
\* logout presented still has its session, so the interceptor accepts it.
C14_OtherSessionsKept ==
  [][/\ (\E r \in Requests : req'[r].pc = "login_create" \/ res'.op = "login")
          => IsPrefix(sessions, sessions')
     /\ res'.op = "logout"
          => /\ Len(sessions') >= Len(sessions) - 1
             /\ \A i \in 1..Len(sessions) :
                  sessions[i].sessionKey # res'.sessionKey
                    => \E j \in 1..Len(sessions') : sessions'[j] = sessions[i]
     /\ res'.op \in {"login", "logout"}
          => \A k \in live \ {res'.sessionKey} : HasSession(sessions', k)]_vars

\* C14 witness: the only user logged in twice and one of the two tokens has
\* just been logged out; the other token's session is stored and live.
C14_Witness ==
  /\ res.op = "logout"
  /\ res.sessionKey \in revoked
  /\ Len(users) = 1
  /\ Len(sessions) = 1
  /\ sessions[1].sessionKey \in live
  /\ sessions[1].userId = 1

\* C15: the session store changes only in a login answered 200 (one session
\* appended) and in a logout (one session removed); the user store only in a
\* register answered 200 (one user appended) and in the save of an
\* UpdateProfile answered 200 (only the document of the request's userId
\* differs); the interceptor, GetProfile, every step that sends no response
\* and every step that answers 400, 401, 404 or 409 change neither store.
C15_StoreFrame ==
  [][/\ sessions' # sessions
          => \/ /\ res'.op = "login" /\ res'.status = 200
                /\ Len(sessions') = Len(sessions) + 1
                /\ IsPrefix(sessions, sessions')
             \/ /\ res'.op = "logout"
                /\ \E i \in 1..Len(sessions) : sessions' = RemoveAt(sessions, i)
     /\ users' # users
          => \/ /\ res'.op = "register" /\ res'.status = 200
                /\ Len(users') = Len(users) + 1
                /\ IsPrefix(users, users')
             \/ /\ res'.op = "patch" /\ res'.status = 200
                /\ Len(users') = Len(users)
                /\ \E r \in Requests :
                     /\ Steps(r, "patch_save")
                     /\ \A j \in 1..Len(users) :
                          j # req[r].userId => users'[j] = users[j]
     /\ (res'.op \in {"checkLogin", "get", "none"}
           \/ res'.status \in {400, 401, 404, 409})
          => users' = users /\ sessions' = sessions]_vars

\* C15 witness: with two users and two sessions stored, a request has just
\* been answered 409.
C15_Witness ==
  /\ res.status = 409
  /\ Len(users) = 2
  /\ Len(sessions) = 2

\* A body that supplies an email and nothing else.
OnlyEmail(body) ==
  body.email # Absent /\ body.name = Absent /\ body.password = Absent

\* C16: an UpdateProfile whose body supplies only the email the user already
\* has is answered 200 at once, with no save and the user store (updateAt
\* included) unchanged; a save is awaited only with updateAt stamped and a
\* name, a password or a different email applied, and a user document changes
\* only in such a save.
C16_NoChangeNoStamp ==
  [][\A r \in Requests :
       /\ (Steps(r, "patch_find") /\ req[r].userId \in UserIds
             /\ OnlyEmail(StepBody(r))
             /\ StepBody(r).email = users[req[r].userId].email)
            => /\ res' = Response("patch", req[r].sessionKey, StepBody(r),
                                  200, NoOut)
               /\ req'[r].pc = "idle"
               /\ users' = users
       /\ (req'[r].pc = "patch_save" /\ req[r].pc # "patch_save")
            => /\ req'[r].user.updateAt = now
               /\ \/ req'[r].body.name # Absent
                  \/ req'[r].body.password # Absent
                  \/ /\ "email" \in req'[r].mod
                     /\ req'[r].user.email = req'[r].body.email
       /\ \A i \in 1..Len(users) :
            users'[i] # users[i]
              => \E q \in Requests : Steps(q, "patch_save") /\ req[q].userId = i]_vars

\* C16 witness: a user who logged in at the current, later instant has just
\* sent an UpdateProfile with only their own email: answered 200, and their
\* updateAt is still the earlier one.
C16_Witness ==
  /\ res.op = "patch"
  /\ res.status = 200
  /\ OnlyEmail(res.body)
  /\ now > 0
  /\ res.sessionKey = gensessionKey(now)
  /\ \E i \in 1..Len(sessions) :
       /\ sessions[i].sessionKey = res.sessionKey
       /\ users[sessions[i].userId].email = res.body.email
       /\ users[sessions[i].userId].updateAt < now

\* C17: the handlers behind the interceptor never look at the session store:
\* a logout leaves every request that is under way where it is, GET /user
\* answers 200 with the profile and the save of PATCH /user writes the
\* modified paths and answers 200, whether or not the session of the key the
\* request presented is still stored.
C17_LogoutBetweenGateAndHandler ==
  [][\A r \in Requests :
       /\ (res'.op = "logout" /\ req[r].pc # "idle") => req'[r] = req[r]
       /\ (Steps(r, "get_find") /\ req[r].userId \in UserIds)
            => /\ res'.op = "get" /\ res'.status = 200
               /\ res'.sessionKey = req[r].sessionKey
       /\ (Steps(r, "patch_save")
             /\ UserEmailFree(users, req[r].userId, req[r].user.email))
            => /\ res'.op = "patch" /\ res'.status = 200
               /\ res'.sessionKey = req[r].sessionKey
               /\ \A f \in req[r].mod :
                    users'[req[r].userId][f] = req[r].user[f]]_vars

\* C17 witness: a PATCH /user has just been answered 200 although the session
\* of the key it presented had been removed by a logout; it changed the
\* user's email, as a login still under way, which matched the user by the
\* former email, shows.
C17_Witness ==
  /\ res.op = "patch"
  /\ res.status = 200
  /\ res.sessionKey \in revoked
  /\ ~HasSession(sessions, res.sessionKey)
  /\ \E q \in Requests :
       /\ req[q].pc = "login_create"
       /\ users[req[q].userId].email = res.body.email
       /\ req[q].body.email # res.body.email

\* C18: every stored session's userId is the id of a stored user, so is the
\* userId of every request past the interceptor, and neither GET /user nor
\* PATCH /user ever answers 401 from its handler.
C18_SessionOwnerExists ==
  /\ \A i \in 1..Len(sessions) : sessions[i].userId \in UserIds
  /\ \A r \in Requests : req[r].pc # "idle" /\ req[r].pc # "register_create"
                           => req[r].userId \in UserIds
  /\ res.op \in {"get", "patch"} => res.status # 401

\* C18 witness: GET /user has just answered 200 with the second user's
\* profile, while the session it presented is no longer stored.
C18_Witness ==
  /\ res.op = "get"
  /\ res.status = 200
  /\ Len(users) = 2
  /\ res.out.email = users[2].email
  /\ res.out.email # users[1].email
  /\ ~HasSession(sessions, res.sessionKey)

\* C19: a login goes on to create a session only for the one user its
\* credentials match; the creation answers 200 only with a key no stored
\* session had, and the session of that key then belongs to that user; a
\* stored session's userId never changes; the interceptor hands on the userId
\* of the session of the presented key, and GET /user answers with the name
\* and email that user has then.
C19_TokenResolvesToOwner ==
  [][\A r \in Requests :
       /\ (req[r].pc = "idle" /\ req'[r].pc = "login_create")
            => \A j \in 1..Len(users) :
                 (users[j].email = req'[r].body.email
                    /\ users[j].password = sha256Hash(req'[r].body.password))
                   <=> j = req'[r].userId
       /\ (Steps(r, "login_create") /\ res'.status = 200)
            => /\ ~HasSession(sessions, res'.out.session_key)
               /\ HasSession(sessions', res'.out.session_key)
               /\ \A i \in 1..Len(sessions') :
                    sessions'[i].sessionKey = res'.out.session_key
                      => sessions'[i].userId = req[r].userId
       /\ \A i \in 1..Len(sessions), j \in 1..Len(sessions') :
            sessions[i].sessionKey = sessions'[j].sessionKey
              => sessions[i].userId = sessions'[j].userId
       /\ (req[r].pc = "idle" /\ req'[r].pc \in Routes)
            => \A i \in 1..Len(sessions) :
                 sessions[i].sessionKey = req'[r].sessionKey
                   => req'[r].userId = sessions[i].userId
       /\ Steps(r, "get_find")
            => /\ res'.out.name = users[req[r].userId].name
               /\ res'.out.email = users[req[r].userId].email]_vars

\* C19 witness: GET /user with the first user's token has just answered with
\* the first user's email, while the second user's login, which read the
\* clock instant of that token, waits for its session to be created.
C19_Witness ==
  /\ res.op = "get"
  /\ res.status = 200
  /\ Len(users) = 2
  /\ res.out.email = users[1].email
  /\ \E i \in 1..Len(sessions) :
       /\ sessions[i].sessionKey = res.sessionKey
       /\ sessions[i].userId = 1
  /\ \E q \in Requests :
       /\ req[q].pc = "login_create"
       /\ req[q].userId = 2
       /\ gensessionKey(req[q].at) = res.sessionKey

\* The status a login presenting body gets when it is served at clock reading
\* t on the stores us and ss: LoginFind followed at once by LoginCreate.
LoginOutcome(us, ss, t, body) ==
  IF body.email = Absent \/ body.password = Absent THEN 400
  ELSE IF FindUserByCredentials(us, body.email, sha256Hash(body.password)) = 0
  THEN 404
  ELSE IF SessionKeyFree(ss, gensessionKey(t)) THEN 200 ELSE Fault

\* LoginOutcome is what the login steps answer: a login that ends at its
\* lookup answers it, and so does the creation of one that goes on.
LoginOutcomeAgrees ==
  [][\A r \in Requests :
       /\ (Steps(r, "idle") /\ res'.op = "login")
            => res'.status = LoginOutcome(users, sessions, now, res'.body)
       /\ Steps(r, "login_create")
            => res'.status = LoginOutcome(users, sessions, req[r].at,
                                          req[r].body)]_vars

Credentials(email, password) ==
  [NoBody EXCEPT !.email = email, !.password = password]

\* C20 (as claimed): when the save of an UpdateProfile answers 200 and has
\* replaced the password p1 by a different p2, a login with the user's email
\* and p1 is answered 404 and one with p2 is answered 200; when it has
\* replaced the email e1 by e2, a login with e1 is answered 404 whatever the
\* password, and one with e2 and the user's password is answered 200.
C20_LoginFollowsUpdate ==
  [][\A r \in Requests :
       (Steps(r, "patch_save") /\ res'.op = "patch" /\ res'.status = 200)
         => LET old == users[req[r].userId]
                new == users'[req[r].userId]
                p2 == req[r].body.password
            IN  /\ (p2 # Absent /\ sha256Hash(p2) # old.password)
                     => /\ LoginOutcome(users', sessions', now',
                                        Credentials(new.email, p2)) = 200
                        /\ \A p1 \in Passwords :
                             sha256Hash(p1) = old.password
                               => LoginOutcome(users', sessions', now',
                                               Credentials(new.email, p1)) = 404
                /\ new.email # old.email
                     => \A p \in Passwords :
                          /\ LoginOutcome(users', sessions', now',
                                          Credentials(old.email, p)) = 404
                          /\ sha256Hash(p) = new.password
                               => LoginOutcome(users', sessions', now',
                                               Credentials(new.email, p)) = 200]_vars

====
